---- MODULE Spec2Model ----
(***************************************************************************)
(* Model of the rolling battery-schedule planner                           *)
(* (TibberOptimizer.plan_battery_schedule_rolling) and of the places that  *)
(* consume its plan.                                                       *)
(*                                                                         *)
(* Numbers.  The code computes with floats; the model computes the same    *)
(* expressions exactly, on integers:                                       *)
(*   energy   in units of 1/KWH kWh     (KWH units = 1 kWh),               *)
(*   SOC      in units of 1/PCT percent (PCT units = 1 %),                 *)
(*   prices   in units of 1/EUR EUR/kWh (EUR units = 1 EUR/kWh).           *)
(* The units are fine enough that every product the planner forms with     *)
(* 1.5 and 1.1 is a whole number of units (checked by ArithmeticExact).    *)
(* Where a float comparison falls on an exact tie (charged_so_far against  *)
(* 60 % of the peak's energy), the model follows the exact value.          *)
(***************************************************************************)
EXTENDS Integers, Sequences, FiniteSets, TLC

KWH == 2 * 1000000
PCT == 1000 * 1000
EUR == 10 * 100

Min(a, b) == IF a <= b THEN a ELSE b
Max(a, b) == IF a >= b THEN a ELSE b

(***************************************************************************)
(* Bounds of the model.                                                    *)
(***************************************************************************)
\* lookahead_hours: the length of the rolling window (the callers pass 24)
LookaheadHours == 8
\* at most this many hours of the window carry the high price
MaxHighPriceHours == 2

Hours == 0 .. (LookaheadHours - 1)

\* "no data for this hour" in a forecast or price input
NoData == -1
\* "no plan": the planner's return value None
NoPlan == [none |-> TRUE]

(***************************************************************************)
(* Configuration (config dict) and program constants.                      *)
(***************************************************************************)
battery_capacity == 10 * KWH
min_soc == 20
max_soc == 95
MaxChargePowers == {1 * KWH, 3 * KWH}

\* ConsumptionLearner.default_fallback, 1.0 kWh per hour
default_fallback == KWH
\* PV of an hour the forecast does not cover
PvFallback == 0
\* price of an hour no price point matches, 0.30
PriceFallback == 300

\* deficit hours: baseline SOC <= min_soc + 5
DeficitBufferPct == 5
\* the fallback path keeps the SOC above min_soc + 10
FallbackTargetPct == 10
\* the per-peak target floor is min_soc + 15
TargetFloorPct == 15
\* a gap of more than 3 hours between expensive hours starts a new peak
PeakGapHours == 3
\* default just-in-time window of 4 hours
DefaultJitHours == 4
\* the window is at least 3 hours wide
MinJitHours == 3
\* hours with baseline SOC >= max_soc - 2 are not available for charging
FullMarginPct == 2
\* the refinement loop runs at most 5 times
max_iterations == 5
\* window expansion stops once 10 hours are available
EnoughHours == 10
\* commit skips hours within 4 hours of the peak start that have high PV
PvSkipHours == 4

\* 0.1 kWh, 0.5 kWh, 2.5 kWh and 28.5 ct/kWh, in model units
Tolerance == KWH \div 10
HalfKwh == KWH \div 2
PvSkipKwh == (5 * KWH) \div 2
PriceCeiling == 285

min_kwh == min_soc * (battery_capacity \div 100)
max_kwh == max_soc * (battery_capacity \div 100)

\* (soc / 100) * battery_capacity and (kwh / battery_capacity) * 100: one
\* energy unit is PctPerUnit SOC units
PctPerUnit == (100 * PCT) \div battery_capacity
PctToKwh(p) == p \div PctPerUnit
KwhToPct(e) == e * PctPerUnit

(***************************************************************************)
(* Inputs the model draws for an invocation.                               *)
(***************************************************************************)
SocValues == {10 * PCT, 30 * PCT, 50 * PCT, 90 * PCT, 100 * PCT}
\* 0.20 and 0.40 EUR/kWh
LowPrice == EUR \div 5
HighPrice == (2 * EUR) \div 5

\* consumption forecasts of the learner: no data at all, a flat average of
\* 0.2, 0.5 or 2 kWh, or a low average that turns high in the second half of
\* the window
ConsumptionInputs ==
    { [h \in Hours |-> c] : c \in {NoData, KWH \div 5, KWH \div 2, 2 * KWH} } \cup
    { [h \in Hours |-> IF 2 * h < LookaheadHours THEN KWH \div 2 ELSE 2 * KWH] }

\* PV forecasts: nothing, or 3 kWh in two adjacent hours
PvInputs ==
    { [h \in Hours |-> NoData] } \cup
    { [h \in Hours |-> IF h \in {q, q + 1} THEN 3 * KWH ELSE 0] :
        q \in { x \in Hours : x % 2 = 0 /\ x + 1 \in Hours } }

\* price points: the low price everywhere, nowhere, or on the even hours,
\* and the high price on at most MaxHighPriceHours hours
PriceBases ==
    { [h \in Hours |-> LowPrice],
      [h \in Hours |-> NoData],
      [h \in Hours |-> IF h % 2 = 0 THEN LowPrice ELSE NoData] }
HighSets == { S \in SUBSET Hours : Cardinality(S) <= MaxHighPriceHours }
PriceInputs ==
    { [h \in Hours |-> IF h \in S THEN HighPrice ELSE b[h]] :
        b \in PriceBases, S \in HighSets }

(***************************************************************************)
(* State.  pc is the planner's position; the other variables are the       *)
(* invocation's arguments and the planner's locals of the same names.      *)
(***************************************************************************)
VARIABLES
    pc,                  \* "idle", "peak", "fallback", "final", "done"
    consumption_learner, \* "ok", "absent" (None) or "error" (its query raises)
    current_soc,         \* argument current_soc, in PCT units
    max_charge_power,    \* config max_charge_power / 1000, in KWH units
    cons_data,           \* what the learner has per rolling hour, or NoData
    pv_data,             \* pv_forecast_48h per rolling hour, or NoData
    price_data,          \* the price point of each rolling hour, or NoData
    hourly_consumption, hourly_pv, hourly_prices,
    baseline_soc,
    deficit_hours,       \* the hours of deficit_hours, ascending
    peaks,               \* each peak: its expensive hours, ascending
    peak_idx,
    hourly_charging,
    charging_windows,
    jit_log,             \* per planned peak: what the refinement loop ended with
    result               \* the returned plan, or NoPlan

inputs == <<consumption_learner, current_soc, max_charge_power,
            cons_data, pv_data, price_data>>
forecasts == <<hourly_consumption, hourly_pv, hourly_prices, baseline_soc,
               deficit_hours, peaks>>
planner_vars == <<pc, inputs, forecasts, peak_idx, hourly_charging,
                  charging_windows, jit_log, result>>

\* The consumption store: the table hourly_consumption and the wall clock.
VARIABLES
    store,               \* the table: timestamp (primary key) -> row
    clock,               \* datetime.now(), in minutes
    op_count,            \* how many store operations have been called
    last_op              \* the last store operation: its arguments and return

store_vars == <<store, clock, op_count, last_op>>

\* controller_loop (app.py), the request handlers that share app_state with
\* it, and the inverter behind kostal_api and modbus_client.
VARIABLES
    loop_pc,             \* "start", "plan", "control" or "sleep"
    loop_now,            \* datetime.now() as the loop last read it, in seconds
    cycle,               \* how many times the loop has slept
    last_plan_update,
    last_mode_switch_time, \* NoTime (None) or the time of the last switch
    controller_running,  \* app_state['controller_running']
    daily_battery_schedule, \* app_state[...]: NoPlan (None) or a plan
    plan_outcome,        \* what the last planner call of the loop came to
    inverter,            \* app_state['inverter']: mode and control_mode
    device,              \* the inverter itself: external control and setpoint
    commands,            \* the commands the loop sent last, with their results
    cycle_locals,        \* should_charge, can_switch, ... of the last cycle
    reader_pc,           \* a request handler that reads the plan
    reader_schedule,     \* its local name for the plan it took
    reader_view          \* what it has read from the plan so far

controller_vars == <<loop_pc, loop_now, cycle, last_plan_update, last_mode_switch_time,
                     controller_running, daily_battery_schedule,
                     plan_outcome, inverter, device, commands,
                     cycle_locals, reader_pc, reader_schedule, reader_view>>

vars == <<planner_vars, store_vars, controller_vars>>

(***************************************************************************)
(* Step 1 and 2: the forecast arrays.                                      *)
(***************************************************************************)
\* get_average_consumption: the average, or default_fallback when the query
\* has no row or the average is 0 (falsy)
get_average_consumption(cons, h) ==
    IF cons[h] = NoData \/ cons[h] = 0 THEN default_fallback ELSE cons[h]

ForecastConsumption(cons) == [h \in Hours |-> get_average_consumption(cons, h)]

ForecastPv(pv) == [h \in Hours |-> IF pv[h] = NoData THEN PvFallback ELSE pv[h]]

ForecastPrices(price) ==
    [h \in Hours |-> IF price[h] = NoData THEN PriceFallback ELSE price[h]]

ZeroCharging == [h \in Hours |-> 0]

(***************************************************************************)
(* Step 3: the SOC trajectory without charging, and the deficit hours.     *)
(***************************************************************************)
\* the clamping of one simulated hour; soc_kwh already includes net_energy
BaselineClamp(soc_kwh, net_energy) ==
    Max(min_kwh, IF net_energy > 0 THEN Min(max_kwh, soc_kwh) ELSE soc_kwh)

RECURSIVE BaselineKwh(_, _, _, _)
BaselineKwh(hour, soc, pv, cons) ==
    IF hour = 0 THEN PctToKwh(soc)
    ELSE LET net_energy == pv[hour - 1] - cons[hour - 1]
         IN  BaselineClamp(BaselineKwh(hour - 1, soc, pv, cons) + net_energy,
                           net_energy)

BaselineSoc(soc, pv, cons) ==
    [hour \in Hours |-> IF hour = 0 THEN soc
                        ELSE KwhToPct(BaselineKwh(hour, soc, pv, cons))]

\* the members of a set of hours as an ascending sequence
RECURSIVE Ascending(_)
Ascending(S) ==
    IF S = {} THEN <<>>
    ELSE LET m == CHOOSE x \in S : \A y \in S : x <= y
         IN  <<m>> \o Ascending(S \ {m})

IsDeficit(baseline, hour) == baseline[hour] <= (min_soc + DeficitBufferPct) * PCT

DeficitHours(baseline) == Ascending({hour \in Hours : IsDeficit(baseline, hour)})

(***************************************************************************)
(* Step 4, price analysis: expensive hours and peaks.                      *)
(***************************************************************************)
RECURSIVE SumUpTo(_, _)
SumUpTo(f, n) == IF n < 0 THEN 0 ELSE f[n] + SumUpTo(f, n - 1)

SumHours(f) == SumUpTo(f, LookaheadHours - 1)

\* sorted(prices)[k]
SortedAt(prices, k) ==
    CHOOSE p \in {prices[h] : h \in Hours} :
        /\ Cardinality({h \in Hours : prices[h] < p}) <= k
        /\ k < Cardinality({h \in Hours : prices[h] <= p})

top_40_index == (LookaheadHours * 6) \div 10

\* prices[hour] >= max(avg_price * 1.05, sorted_prices[top_40_index])
IsExpensive(prices, hour) ==
    /\ prices[hour] * LookaheadHours * 100 >= SumHours(prices) * 105
    /\ prices[hour] >= SortedAt(prices, top_40_index)

ExpensiveHours(prices) == Ascending({hour \in Hours : IsExpensive(prices, hour)})

\* mutant of StartsNewPeak: a gap of 3 hours already starts a new peak
StartsNewPeak_FromThree(previous, hour) == hour - previous >= PeakGapHours

\* a gap of more than PeakGapHours starts a new peak
StartsNewPeak(previous, hour) == hour - previous > PeakGapHours

RECURSIVE GroupPeaks(_, _, _, _)
GroupPeaks(expensive, i, current_peak, grouped) ==
    IF i > Len(expensive) THEN Append(grouped, current_peak)
    ELSE IF StartsNewPeak(expensive[i - 1], expensive[i])
         THEN GroupPeaks(expensive, i + 1, <<expensive[i]>>,
                         Append(grouped, current_peak))
         ELSE GroupPeaks(expensive, i + 1, Append(current_peak, expensive[i]),
                         grouped)

Peaks(prices) ==
    LET expensive == ExpensiveHours(prices)
    IN  IF expensive = <<>> THEN <<>>
        ELSE GroupPeaks(expensive, 2, <<expensive[1]>>, <<>>)

(***************************************************************************)
(* Step 4, per peak: the just-in-time window.                              *)
(***************************************************************************)
PeakStart(peak) == peak[1]
PeakEnd(peak) == peak[Len(peak)]

\* search_start: the hour after the previous peak's last hour
SearchStart(pks, idx) == IF idx > 0 THEN PeakEnd(pks[idx]) + 1 ELSE 0

target_lowest_kwh == (min_soc + TargetFloorPct) * (battery_capacity \div 100)

\* mutant of InitialJitStart: the window is not widened to 3 hours
InitialJitStart_NotWidened(baseline, search_start, peak_start) ==
    LET low == { h \in search_start .. (peak_start - 1) :
                    h < LookaheadHours /\ PctToKwh(baseline[h]) < target_lowest_kwh }
        first == IF low = {}
                 THEN Max(search_start, peak_start - DefaultJitHours)
                 ELSE CHOOSE h \in low : \A g \in low : h <= g
    IN  Max(search_start, first)

\* the first hour of the window, lines 519-534
InitialJitStart(baseline, search_start, peak_start) ==
    LET low == { h \in search_start .. (peak_start - 1) :
                    h < LookaheadHours /\ PctToKwh(baseline[h]) < target_lowest_kwh }
        first == IF low = {}
                 THEN Max(search_start, peak_start - DefaultJitHours)
                 ELSE CHOOSE h \in low : \A g \in low : h <= g
    IN  Max(search_start, Min(first, peak_start - MinJitHours))

\* sum of pv + charging - consumption over the hours 0 .. n
RECURSIVE CumulativeEnergy(_, _, _, _)
CumulativeEnergy(n, pv, cons, charging) ==
    IF n < 0 THEN 0
    ELSE pv[n] + charging[n] - cons[n] + CumulativeEnergy(n - 1, pv, cons, charging)

\* soc_at_jit_start_kwh, lines 538-544 and 632-637
SocAtJitStart(jit_start, soc, pv, cons, charging) ==
    Max(min_kwh, Min(max_kwh,
        PctToKwh(soc) + CumulativeEnergy(jit_start - 1, pv, cons, charging)))

\* an hour may take charging: none planned yet and the battery not nearly full
IsAvailable(h, baseline, charging) ==
    charging[h] = 0 /\ baseline[h] < (max_soc - FullMarginPct) * PCT

\* mutant of InsertByPrice: the list is left in the order it was built
InsertByPrice_Unsorted(sorted, x, prices) == Append(sorted, x)

\* list.sort(key=price): stable insertion of x behind every hour that is not
\* more expensive
RECURSIVE InsertByPrice(_, _, _)
InsertByPrice(sorted, x, prices) ==
    IF sorted = <<>> THEN <<x>>
    ELSE IF prices[sorted[Len(sorted)]] <= prices[x] THEN Append(sorted, x)
    ELSE Append(InsertByPrice(SubSeq(sorted, 1, Len(sorted) - 1), x, prices),
                sorted[Len(sorted)])

RECURSIVE SortByPrice(_, _)
SortByPrice(seq, prices) ==
    IF seq = <<>> THEN <<>>
    ELSE InsertByPrice(SortByPrice(SubSeq(seq, 1, Len(seq) - 1), prices),
                       seq[Len(seq)], prices)

\* mutant of AvailableHours: the window runs through the peak's first hour
AvailableHours_ThroughPeakStart(jit_start, peak_start, baseline, charging, prices) ==
    SortByPrice(
        Ascending({ h \in jit_start .. peak_start :
                      h >= 0 /\ h < LookaheadHours /\ IsAvailable(h, baseline, charging) }),
        prices)

\* the hours of the window that may take charging, cheapest first
AvailableHours(jit_start, peak_start, baseline, charging, prices) ==
    SortByPrice(
        Ascending({ h \in jit_start .. (peak_start - 1) :
                      h >= 0 /\ h < LookaheadHours /\ IsAvailable(h, baseline, charging) }),
        prices)

\* the peak's own net consumption, lines 563-568
RECURSIVE EnergyDuringPeak(_, _, _, _)
EnergyDuringPeak(h, peak_end, pv, cons) ==
    IF h > peak_end THEN 0
    ELSE (IF h < LookaheadHours /\ cons[h] - pv[h] > 0 THEN cons[h] - pv[h] ELSE 0)
         + EnergyDuringPeak(h + 1, peak_end, pv, cons)

\* x * 1.5 and x * 1.1
TimesOneAndHalf(x) == (x * 3) \div 2
TimesOnePointOne(x) == (x * 11) \div 10

\* mutant of ChargeThisHour: the per-hour cap on the charge power is missing
ChargeThisHour_Uncapped(remaining_kwh, power) == remaining_kwh

\* what one hour takes of the energy still to place
ChargeThisHour(remaining_kwh, power) == Min(remaining_kwh, power)

\* the tentative allocation of the refinement loop, lines 582-591
RECURSIVE Allocate(_, _, _, _, _)
Allocate(available, i, remaining_kwh, allocation, power) ==
    IF i > Len(available) \/ remaining_kwh <= 0
    THEN [allocation |-> allocation, remaining_kwh |-> remaining_kwh]
    ELSE LET charge_this_hour == ChargeThisHour(remaining_kwh, power)
         IN  Allocate(available, i + 1, remaining_kwh - charge_this_hour,
                      [allocation EXCEPT ![available[i]] = charge_this_hour], power)

\* the simulation from the window's start to the peak's end, lines 594-607
RECURSIVE SimulatePeak(_, _, _, _, _, _, _, _, _)
SimulatePeak(h, last, sim_soc_kwh, lowest_soc_kwh, lowest_soc_hour, allocation, pv, cons, charging) ==
    IF h > last
    THEN [lowest_soc_kwh |-> lowest_soc_kwh, lowest_soc_hour |-> lowest_soc_hour]
    ELSE LET net == pv[h] + charging[h] + allocation[h] - cons[h]
             sim == Max(min_kwh, Min(max_kwh, sim_soc_kwh + net))
         IN  IF sim < lowest_soc_kwh
             THEN SimulatePeak(h + 1, last, sim, sim, h, allocation, pv, cons, charging)
             ELSE SimulatePeak(h + 1, last, sim, lowest_soc_kwh, lowest_soc_hour,
                               allocation, pv, cons, charging)

\* lines 616-623: earlier hours appended while the window is too late
RECURSIVE ExpandEarlier(_, _, _, _, _)
ExpandEarlier(h, search_start, available, baseline, charging) ==
    IF h < search_start \/ h < 0 THEN available
    ELSE LET grown == IF IsAvailable(h, baseline, charging)
                      THEN Append(available, h) ELSE available
         IN  IF Len(grown) >= EnoughHours THEN grown
             ELSE ExpandEarlier(h - 1, search_start, grown, baseline, charging)

\* lines 652-658: earlier hours appended when the window cannot take the charge
RECURSIVE AppendEarlier(_, _, _, _, _)
AppendEarlier(h, search_start, available, baseline, charging) ==
    IF h < search_start \/ h < 0 THEN available
    ELSE AppendEarlier(h - 1, search_start,
                       IF IsAvailable(h, baseline, charging)
                       THEN Append(available, h) ELSE available,
                       baseline, charging)

MinHour(seq) == CHOOSE h \in {seq[i] : i \in 1 .. Len(seq)} :
                    \A i \in 1 .. Len(seq) : h <= seq[i]

(***************************************************************************)
(* Step 4, per peak: the refinement loop (lines 580-665).  st holds the    *)
(* loop's variables; the operators read the forecast arrays and the        *)
(* charging planned so far from the state.                                 *)
(***************************************************************************)
\* the window is too late: the lowest point is at its first hour, near the floor
WindowTooLate(sim, st) ==
    /\ sim.lowest_soc_hour = st.jit_start
    /\ sim.lowest_soc_kwh <= min_kwh + HalfKwh
    /\ ~st.window_expanded

TargetReached(sim) == sim.lowest_soc_kwh >= target_lowest_kwh - Tolerance

RECURSIVE Refine(_, _, _, _)
Refine(iteration, st, search_start, peak_end) ==
    IF iteration >= max_iterations THEN st
    ELSE
    LET alloc == Allocate(st.available_hours, 1, st.required_charge_kwh,
                          ZeroCharging, max_charge_power)
        sim == SimulatePeak(st.jit_start, Min(peak_end + 1, LookaheadHours) - 1,
                            st.soc_at_jit_start_kwh, st.soc_at_jit_start_kwh,
                            st.jit_start, alloc.allocation,
                            hourly_pv, hourly_consumption, hourly_charging)
        seen == [st EXCEPT !.iterations = iteration + 1,
                           !.lowest_soc_kwh = sim.lowest_soc_kwh]
    IN
    IF WindowTooLate(sim, st)
    THEN LET grown == ExpandEarlier(st.jit_start - 1, search_start,
                                    st.available_hours, baseline_soc, hourly_charging)
         IN  IF Len(grown) > Len(st.available_hours)
             THEN LET new_start == MinHour(grown)
                  IN  Refine(iteration + 1,
                             [seen EXCEPT
                                !.available_hours = SortByPrice(grown, hourly_prices),
                                !.window_expanded = TRUE,
                                !.jit_start = new_start,
                                !.soc_at_jit_start_kwh =
                                    SocAtJitStart(new_start, current_soc, hourly_pv,
                                                  hourly_consumption, hourly_charging)],
                             search_start, peak_end)
             ELSE [seen EXCEPT !.window_expanded = TRUE]
    ELSE IF TargetReached(sim) THEN [seen EXCEPT !.target_reached = TRUE]
    ELSE LET more == IF alloc.remaining_kwh > Tolerance /\ iteration = 0
                     THEN SortByPrice(
                              AppendEarlier(st.jit_start - 1, search_start,
                                            st.available_hours, baseline_soc,
                                            hourly_charging),
                              hourly_prices)
                     ELSE st.available_hours
             deficit_kwh == target_lowest_kwh - sim.lowest_soc_kwh
         IN  Refine(iteration + 1,
                    [seen EXCEPT
                       !.available_hours = more,
                       !.required_charge_kwh = st.required_charge_kwh
                                               + TimesOnePointOne(deficit_kwh),
                       !.exact = st.exact /\ (deficit_kwh * 11) % 10 = 0],
                    search_start, peak_end)

\* the loop's variables when it is entered, lines 511-578
JitSetup(pks, idx) ==
    LET peak == pks[idx + 1]
        search_start == SearchStart(pks, idx)
        jit_start == InitialJitStart(baseline_soc, search_start, PeakStart(peak))
        energy == EnergyDuringPeak(PeakStart(peak), PeakEnd(peak),
                                   hourly_pv, hourly_consumption)
    IN  [ peak |-> idx + 1,
          initial_jit_start |-> jit_start,
          jit_start |-> jit_start,
          soc_at_jit_start_kwh |->
              SocAtJitStart(jit_start, current_soc, hourly_pv,
                            hourly_consumption, hourly_charging),
          available_hours |->
              AvailableHours(jit_start, PeakStart(peak), baseline_soc,
                             hourly_charging, hourly_prices),
          required_charge_kwh |-> TimesOneAndHalf(energy),
          window_expanded |-> FALSE,
          target_reached |-> FALSE,
          iterations |-> 0,
          lowest_soc_kwh |-> 0,
          exact |-> (energy * 3) % 2 = 0 ]

(***************************************************************************)
(* Step 4, per peak: committing the allocation (lines 668-711).            *)
(***************************************************************************)
HighPvNearPeak(hour, peak_start) ==
    LET distance == IF hour >= peak_start THEN hour - peak_start ELSE peak_start - hour
    IN  hourly_pv[hour] > PvSkipKwh /\ distance <= PvSkipHours

\* price_ct > 28.5 and charged_so_far > initial_kwh * 0.6
TooExpensive(hour, remaining_kwh, initial_kwh) ==
    /\ hourly_prices[hour] > PriceCeiling
    /\ (initial_kwh - remaining_kwh) * 10 > initial_kwh * 6

\* mutant of Window: the entry records the charge power, not the hour's energy
Window_FullPower(hour, charge_kwh, reason) ==
    [hour |-> hour, charge_kwh |-> max_charge_power, price |-> hourly_prices[hour],
     reason |-> reason]

Window(hour, charge_kwh, reason) ==
    [hour |-> hour, charge_kwh |-> charge_kwh, price |-> hourly_prices[hour],
     reason |-> reason]

\* what committing one hour does to the plan, lines 696-706
CommitHour(plan, hour, charge_kwh, reason) ==
    [ charging |-> [plan.charging EXCEPT ![hour] = charge_kwh],
      windows |-> Append(plan.windows, Window(hour, charge_kwh, reason)) ]

RECURSIVE CommitSlots(_, _, _, _, _, _, _)
CommitSlots(available, i, remaining_kwh, initial_kwh, plan, peak_start, reason) ==
    IF i > Len(available) \/ remaining_kwh <= Tolerance THEN plan
    ELSE LET hour == available[i]
         IN  IF HighPvNearPeak(hour, peak_start)
             THEN CommitSlots(available, i + 1, remaining_kwh, initial_kwh, plan,
                              peak_start, reason)
             ELSE IF TooExpensive(hour, remaining_kwh, initial_kwh) THEN plan
             ELSE LET charge_kwh == ChargeThisHour(remaining_kwh, max_charge_power)
                  IN  CommitSlots(available, i + 1, remaining_kwh - charge_kwh,
                                  initial_kwh,
                                  CommitHour(plan, hour, charge_kwh, reason),
                                  peak_start, reason)

\* lines 668-713
CommitPeak(st, plan, peak_start) ==
    IF st.required_charge_kwh > HalfKwh /\ st.available_hours # <<>>
    THEN CommitSlots(st.available_hours, 1, st.required_charge_kwh,
                     st.required_charge_kwh, plan, peak_start, <<"Peak", st.peak>>)
    ELSE plan

(***************************************************************************)
(* Step 4, fallback: deficits but no peak (lines 718-756).                 *)
(***************************************************************************)
fallback_target_kwh == (min_soc + FallbackTargetPct) * (battery_capacity \div 100)

\* max_cumulative_deficit, lines 724-732
RECURSIVE MaxCumulativeDeficit(_, _, _)
MaxCumulativeDeficit(hour, cumulative_energy, max_deficit) ==
    IF hour >= LookaheadHours THEN max_deficit
    ELSE LET cumulative == cumulative_energy + hourly_pv[hour] - hourly_consumption[hour]
             soc_at_hour_kwh == PctToKwh(current_soc) + cumulative
             deficit_at_hour == Max(0, fallback_target_kwh - soc_at_hour_kwh)
         IN  MaxCumulativeDeficit(hour + 1, cumulative, Max(max_deficit, deficit_at_hour))

\* the hours before the first deficit hour, cheapest first
FallbackHours(first_deficit_hour) ==
    SortByPrice(Ascending(0 .. (first_deficit_hour - 1)), hourly_prices)

RECURSIVE FallbackSlots(_, _, _, _, _)
FallbackSlots(available, i, remaining_kwh, plan, reason) ==
    IF i > Len(available) \/ remaining_kwh <= 0 THEN plan
    ELSE LET charge_kwh == ChargeThisHour(remaining_kwh, max_charge_power)
         IN  FallbackSlots(available, i + 1, remaining_kwh - charge_kwh,
                           CommitHour(plan, available[i], charge_kwh, reason), reason)

FallbackPlan(plan) ==
    LET first_deficit_hour == deficit_hours[1]
    IN  FallbackSlots(FallbackHours(first_deficit_hour), 1,
                      MaxCumulativeDeficit(first_deficit_hour, 0, 0), plan,
                      <<"Prevent deficit at hour", first_deficit_hour>>)

(***************************************************************************)
(* Step 5: the final SOC trajectory and the returned plan (lines 769-814). *)
(***************************************************************************)
\* mutant of FinalClamp: the lower clamp to min_kwh is missing
FinalClamp_NoFloor(soc_kwh, net_energy) ==
    IF net_energy > 0 THEN Min(max_kwh, soc_kwh) ELSE soc_kwh

FinalClamp(soc_kwh, net_energy) ==
    Max(min_kwh, IF net_energy > 0 THEN Min(max_kwh, soc_kwh) ELSE soc_kwh)

\* mutant of FinalNetEnergy: the planned charging is left out
FinalNetEnergy_WithoutCharging(hour, pv, cons, charging) ==
    pv[hour - 1] - cons[hour - 1]

\* net energy of the hour before `hour`
FinalNetEnergy(hour, pv, cons, charging) ==
    pv[hour - 1] + charging[hour - 1] - cons[hour - 1]

RECURSIVE FinalKwh(_, _, _, _, _)
FinalKwh(hour, soc, pv, cons, charging) ==
    IF hour = 0 THEN PctToKwh(soc)
    ELSE LET net_energy == FinalNetEnergy(hour, pv, cons, charging)
         IN  FinalClamp(FinalKwh(hour - 1, soc, pv, cons, charging) + net_energy,
                        net_energy)

FinalSoc(soc, pv, cons, charging) ==
    [hour \in Hours |-> IF hour = 0 THEN soc
                        ELSE KwhToPct(FinalKwh(hour, soc, pv, cons, charging))]

MinOf(f) == CHOOSE v \in {f[h] : h \in Hours} : \A h \in Hours : v <= f[h]

ReturnedPlan ==
    LET final_soc == FinalSoc(current_soc, hourly_pv, hourly_consumption,
                              hourly_charging)
    IN  [ hourly_soc |-> final_soc,
          hourly_charging |-> hourly_charging,
          hourly_pv |-> hourly_pv,
          hourly_consumption |-> hourly_consumption,
          hourly_prices |-> hourly_prices,
          charging_windows |-> charging_windows,
          min_soc_reached |-> MinOf(final_soc),
          total_charging_kwh |-> SumHours(hourly_charging) ]

(***************************************************************************)
(* The controller's reading of the stored plan (app.py, lines 3195-3217).  *)
(***************************************************************************)
\* mutant of ChargeNowFromPlan: only the first window of the list is looked at
ChargeNowFromPlan_FirstWindowOnly(schedule) ==
    /\ schedule.charging_windows # <<>>
    /\ schedule.charging_windows[1].hour = 0

\* current_window: the first charging window with hour == 0, if any
ChargeNowFromPlan(schedule) ==
    \E i \in 1 .. Len(schedule.charging_windows) :
        schedule.charging_windows[i].hour = 0

(***************************************************************************)
(* The planner as a state machine.                                         *)
(***************************************************************************)
\* mutant of ChargingStrategy: peaks are planned for without any deficit hour
ChargingStrategy_PeaksAlone(pks, deficits) ==
    IF pks # <<>> THEN "peak"
    ELSE IF deficits # <<>> THEN "fallback"
    ELSE "final"

\* lines 494 and 718: per-peak charging, the fallback, or no charging at all
ChargingStrategy(pks, deficits) ==
    IF pks # <<>> /\ deficits # <<>> THEN "peak"
    ELSE IF deficits # <<>> THEN "fallback"
    ELSE "final"

(***************************************************************************)
(* The consumption store (ConsumptionLearner).                             *)
(*                                                                         *)
(* A timestamp is a number of minutes; the callers pass naive local        *)
(* datetimes, so the ISO strings the table is keyed by and compared on     *)
(* order as the minutes do.  Energy is in KWH units, an average is the     *)
(* sum divided by the count, rounded down to a whole unit.                 *)
(*                                                                         *)
(* record_consumption is called with the time of the call, as its one      *)
(* caller does (app.py line 3160).  A day entry that is not a dict or      *)
(* whose date does not parse is not modelled; a value float() cannot       *)
(* convert is.  The methods are modelled as written: the file itself has   *)
(* an indentation error at line 504, inside another method.                *)
(***************************************************************************)
MinutesPerHour == 60
HoursPerDay == 24
DaysPerWeek == 7
MinutesPerDay == HoursPerDay * MinutesPerHour
DayHours == 0 .. (HoursPerDay - 1)

\* ConsumptionLearner.learning_days, the retention window in days
learning_days == 28
\* record_consumption rejects values above 100 kWh
RecordLimit == 100 * KWH
\* import_detailed_history caps values at 50 kWh
ImportLimit == 50 * KWH

\* bounds: store operations called, and hours the clock advances
MaxOps == 2
MaxTicks == 1

\* the clock starts on day 35 at 22:20
StartDay == 5 * DaysPerWeek
StartClock == StartDay * MinutesPerDay + 22 * MinutesPerHour + 20

\* datetime.hour, DATE(timestamp), strftime('%w', ...)
HourOf(ts) == (ts % MinutesPerDay) \div MinutesPerHour
DateOf(ts) == ts \div MinutesPerDay
Weekday(date) == date % DaysPerWeek
\* timestamp.replace(minute=0, second=0, microsecond=0)
FullHour(ts) == ts - (ts % MinutesPerHour)
\* date.replace(hour=hour, minute=0, second=0, microsecond=0)
AtHour(date, hour) == date * MinutesPerDay + hour * MinutesPerHour

\* target_date=None: no weekday filter
NoFilter == NoData
WeekdayFilters == {NoFilter} \cup (0 .. (DaysPerWeek - 1))

EmptyStore == [k \in {} |-> 0]

\* INSERT OR REPLACE of the rows `rows` (timestamp -> row)
InsertOrReplace(st, rows) ==
    [k \in DOMAIN st \cup DOMAIN rows |-> IF k \in DOMAIN rows THEN rows[k] ELSE st[k]]

\* mutant of cleanup_old_data: nothing is deleted
cleanup_old_data_Nothing(st, now) == st

\* DELETE FROM hourly_consumption WHERE timestamp < cutoff
cleanup_old_data(st, now) ==
    LET cutoff == now - learning_days * MinutesPerDay
    IN  [k \in {x \in DOMAIN st : ~(x < cutoff)} |-> st[k]]

(***************************************************************************)
(* record_consumption                                                      *)
(***************************************************************************)
\* mutant of RecordAccepted: the upper limit is missing
RecordAccepted_NoUpperLimit(consumption_kwh) == ~(consumption_kwh < 0)

\* the two validations that return early
RecordAccepted(consumption_kwh) ==
    ~(consumption_kwh < 0) /\ ~(consumption_kwh > RecordLimit)

\* mutant of RecordKey: the timestamp is not rounded down to the hour
RecordKey_Unrounded(timestamp) == timestamp

\* the key the sample is stored under
RecordKey(timestamp) == FullHour(timestamp)

RecordRow(timestamp, consumption_kwh, now) ==
    [hour |-> HourOf(timestamp), consumption_kwh |-> consumption_kwh,
     is_manual |-> FALSE, created_at |-> now]

record_consumption(st, timestamp, consumption_kwh, now) ==
    IF ~RecordAccepted(consumption_kwh) THEN st
    ELSE cleanup_old_data(
             InsertOrReplace(st, [k \in {RecordKey(timestamp)} |->
                                    RecordRow(timestamp, consumption_kwh, now)]),
             now)

(***************************************************************************)
(* import_detailed_history                                                 *)
(*                                                                         *)
(* A day entry is [date, hours, not_a_number]: hours is the list of        *)
(* values, not_a_number the first hour whose value float() cannot convert  *)
(* (NoData when every value is a number).                                  *)
(***************************************************************************)
\* negative values become 0, values above 50 become 50
ImportValue(consumption) ==
    IF consumption < 0 THEN 0
    ELSE IF consumption > ImportLimit THEN ImportLimit
    ELSE consumption

ImportRow(hour, consumption, now) ==
    [hour |-> hour, consumption_kwh |-> ImportValue(consumption),
     is_manual |-> TRUE, created_at |-> now]

\* the day is skipped unless it has exactly 24 values
ValidLength(hours) == Len(hours) = HoursPerDay

\* mutant of HoursInserted: a day of the wrong length is imported as far as
\* its values go
HoursInserted_WhatIsThere(day_entry) ==
    IF day_entry.not_a_number # NoData THEN 0 .. (day_entry.not_a_number - 1)
    ELSE 0 .. (Min(Len(day_entry.hours), HoursPerDay) - 1)

\* the hours of the day the loop inserts before it ends or float() raises
HoursInserted(day_entry) ==
    IF ~ValidLength(day_entry.hours) THEN {}
    ELSE IF day_entry.not_a_number = NoData THEN DayHours
    ELSE 0 .. (day_entry.not_a_number - 1)

\* the day counts as skipped: wrong length, or an exception in the loop
DaySkipped(day_entry) ==
    ~ValidLength(day_entry.hours) \/ day_entry.not_a_number # NoData

\* one pass of the loop over daily_data; acc is [store, imported_count,
\* skipped_count]
ImportDay(acc, day_entry, now) ==
    LET inserted == HoursInserted(day_entry)
        rows == [k \in {AtHour(day_entry.date, h) : h \in inserted} |->
                    ImportRow(HourOf(k), day_entry.hours[HourOf(k) + 1], now)]
    IN  [store |-> InsertOrReplace(acc.store, rows),
         imported_count |-> acc.imported_count + Cardinality(inserted),
         skipped_count |-> acc.skipped_count + (IF DaySkipped(day_entry) THEN 1 ELSE 0)]

RECURSIVE ImportDays(_, _, _, _)
ImportDays(acc, daily_data, i, now) ==
    IF i > Len(daily_data) THEN acc
    ELSE ImportDays(ImportDay(acc, daily_data[i], now), daily_data, i + 1, now)

\* the whole call: the loop, the commit, the cleanup and the returned dict
import_detailed_history(st, daily_data, now) ==
    LET acc == ImportDays([store |-> st, imported_count |-> 0, skipped_count |-> 0],
                          daily_data, 1, now)
    IN  [store |-> cleanup_old_data(acc.store, now),
         returned |-> [imported_hours |-> acc.imported_count,
                       skipped_days |-> acc.skipped_count,
                       success |-> acc.skipped_count = 0]]

(***************************************************************************)
(* get_average_consumption and get_hourly_profile                          *)
(***************************************************************************)
\* mutant of MatchingKeys: the weekday condition is missing
MatchingKeys_AnyWeekday(st, hour, weekday_filter) ==
    { k \in DOMAIN st : st[k].hour = hour }

\* WHERE hour = ? [AND strftime('%w', timestamp) = ?]
MatchingKeys(st, hour, weekday_filter) ==
    { k \in DOMAIN st :
        /\ st[k].hour = hour
        /\ weekday_filter = NoFilter \/ Weekday(DateOf(k)) = weekday_filter }

\* ORDER BY is_manual ASC, created_at DESC: row a sorts before row b
SortsBefore(a, b) ==
    \/ ~a.is_manual /\ b.is_manual
    \/ a.is_manual = b.is_manual /\ a.created_at > b.created_at

\* ROW_NUMBER() OVER (PARTITION BY DATE(timestamp), hour ORDER BY ...) = 1;
\* rows that tie are numbered in the order of their keys
BestKeys(st, keys) ==
    { k \in keys :
        \A j \in keys \ {k} :
            (DateOf(j) = DateOf(k) /\ st[j].hour = st[k].hour) =>
                \/ SortsBefore(st[k], st[j])
                \/ ~SortsBefore(st[j], st[k]) /\ k < j }

RECURSIVE SumKwh(_, _)
SumKwh(st, keys) ==
    IF keys = {} THEN 0
    ELSE LET k == CHOOSE x \in keys : TRUE
         IN  st[k].consumption_kwh + SumKwh(st, keys \ {k})

\* SELECT AVG(consumption_kwh): NoData stands for the NULL of an empty set
AverageQuery(st, hour, weekday_filter) ==
    LET keys == BestKeys(st, MatchingKeys(st, hour, weekday_filter))
    IN  IF keys = {} THEN NoData
        ELSE SumKwh(st, keys) \div Cardinality(keys)

\* the learner's whole get_average_consumption(hour, target_date)
StoreAverage(st, hour, weekday_filter) ==
    get_average_consumption([x \in {hour} |-> AverageQuery(st, hour, weekday_filter)],
                            hour)

\* the rows of the GROUP BY hour query: the average of each hour that has
\* a sample, NoData for an hour the query has no row for
ProfileRows(st, weekday_filter) ==
    [h \in DayHours |-> AverageQuery(st, h, weekday_filter)]

RECURSIVE SumAverages(_, _)
SumAverages(rows, hours) ==
    IF hours = {} THEN 0
    ELSE LET h == CHOOSE x \in hours : TRUE
         IN  rows[h] + SumAverages(rows, hours \ {h})

\* mutant of ProfileFill: a missing hour is always filled with the fallback
ProfileFill_AlwaysFallback(rows) == default_fallback

\* what a missing hour is filled with: sum(profile.values()) / len(profile),
\* or default_fallback when the query returned nothing
ProfileFill(rows) ==
    LET with_data == { h \in DayHours : rows[h] # NoData }
    IN  IF with_data # {}
        THEN SumAverages(rows, with_data) \div Cardinality(with_data)
        ELSE default_fallback

get_hourly_profile(st, weekday_filter) ==
    LET rows == ProfileRows(st, weekday_filter)
        fill == ProfileFill(rows)
    IN  [h \in DayHours |-> IF rows[h] # NoData THEN rows[h] ELSE fill]

\* the planner's loop over the window, tibber_optimizer.py lines 338-352:
\* the calendar slot of rolling hour i, and what the learner's query has
\* for it
TargetHour(now, i) == (HourOf(now) + i) % HoursPerDay
TargetDate(now, i) == DateOf(now) + (HourOf(now) + i) \div HoursPerDay
StoreConsData(st, now) ==
    [i \in Hours |-> AverageQuery(st, TargetHour(now, i), Weekday(TargetDate(now, i)))]

(***************************************************************************)
(* What the model records and imports.                                     *)
(***************************************************************************)
\* 0.9 kWh
SampleKwh == (9 * KWH) \div 10

\* live values: negative, zero, ordinary, the largest accepted, too large
RecordValues == {0 - SampleKwh, 0, SampleKwh, RecordLimit, RecordLimit + 1}

FlatHours(n, v) == [h \in 1 .. n |-> v]
\* a day with a negative value at hour 0 and a value above 50 kWh at hour 1
OutOfRangeHours ==
    [h \in 1 .. HoursPerDay |->
        IF h = 1 THEN 0 - SampleKwh
        ELSE IF h = 2 THEN ImportLimit + SampleKwh
        ELSE SampleKwh]

\* the hour whose value is not a number in a malformed day
BadHour == 3

GoodDay(date, v) ==
    [date |-> date, hours |-> FlatHours(HoursPerDay, v), not_a_number |-> NoData]
ClampedDay(date) ==
    [date |-> date, hours |-> OutOfRangeHours, not_a_number |-> NoData]
ShortDay(date) ==
    [date |-> date, hours |-> FlatHours(HoursPerDay - 1, SampleKwh),
     not_a_number |-> NoData]
MalformedDay(date) ==
    [date |-> date, hours |-> FlatHours(HoursPerDay, SampleKwh),
     not_a_number |-> BadHour]

\* the day on the edge of the retention window, the same weekday a week
\* ago, tomorrow's weekday a week ago, and today
EdgeDay == StartDay - learning_days
WeekAgo == StartDay - DaysPerWeek
NextWeekdayAgo == StartDay + 1 - DaysPerWeek

\* batches of one day, and batches of a day a week ago and today
ImportBatches ==
    { <<d>> : d \in {ClampedDay(EdgeDay), GoodDay(NextWeekdayAgo, SampleKwh),
                     GoodDay(StartDay, 0), ShortDay(StartDay), MalformedDay(StartDay)} }
    \cup
    { <<d, GoodDay(StartDay, 0)>> :
        d \in {GoodDay(WeekAgo, SampleKwh), ShortDay(WeekAgo), MalformedDay(WeekAgo)} }
    \cup
    { <<GoodDay(WeekAgo, SampleKwh), ShortDay(StartDay)>> }

NoOp == [name |-> "none", timestamp |-> 0, value |-> 0, daily_data |-> <<>>,
         returned |-> [imported_hours |-> 0, skipped_days |-> 0, success |-> TRUE]]

StoreIdle ==
    /\ store = EmptyStore
    /\ clock = StartClock
    /\ op_count = 0
    /\ last_op = NoOp

Idle ==
    /\ pc = "idle"
    /\ consumption_learner = "ok"
    /\ current_soc = 0 /\ max_charge_power = 0
    /\ cons_data = <<>> /\ pv_data = <<>> /\ price_data = <<>>
    /\ hourly_consumption = <<>> /\ hourly_pv = <<>> /\ hourly_prices = <<>>
    /\ baseline_soc = <<>> /\ deficit_hours = <<>> /\ peaks = <<>>
    /\ peak_idx = 0
    /\ hourly_charging = <<>> /\ charging_windows = <<>>
    /\ jit_log = <<>>
    /\ result = NoPlan

(***************************************************************************)
(* The controller: controller_loop, api_control and the request handlers   *)
(* that read the plan (app.py), with the inverter behind kostal_api and    *)
(* modbus_client.  Time is in seconds and never runs backwards.  The       *)
(* planner is taken by what it hands back: a plan, None, or an exception   *)
(* of the calls around it.  A plan is a dict that nothing writes to after  *)
(* the planner has returned it, so a name bound to it holds its value.     *)
(* app_state['battery']['soc'], which every cycle of the loop overwrites    *)
(* with its reading, is the cycle's current_soc and no variable of its own.*)
(***************************************************************************)
control_interval == 30
plan_update_interval == 300
\* config mode_switch_hysteresis_seconds as set for this model (default 900)
mode_switch_hysteresis_seconds == 60
\* -config['max_charge_power'], in watts
charge_power == -3900
\* the loop is followed for this many iterations
MaxCycles == 3

NoTime == -1

\* what ha_client.get_state gives for the SOC sensor: the sensor's state, the
\* text 'unavailable', or None when the request failed
SocStates ==
    { [kind |-> "number", value |-> v] : v \in {min_soc - 1, min_soc, max_soc} }
    \cup { [kind |-> "None", value |-> 0], [kind |-> "unavailable", value |-> 0] }

\* one iteration takes control_interval plus what its calls take
CycleSeconds == {control_interval, plan_update_interval + control_interval}

\* charging_windows of the plans the planner hands back here
PlannedWindows == { <<[hour |-> 0]>>, <<[hour |-> 1]>> }
PlannerOutcomes == {"plan", "None", "raised"}

\* KostalAPI.set_external_control: True when the inverter took it, False (no
\* exception) when it did not
set_external_control(dev, enabled, ok) ==
    IF ok THEN [dev EXCEPT !.external_control = enabled] ELSE dev

\* ModbusClient.write_battery_power: the same
write_battery_power(dev, power_watts, ok) ==
    IF ok THEN [dev EXCEPT !.battery_power = power_watts] ELSE dev

\* the loop starts charging: both commands, then the record, whatever the
\* commands returned
StartCharging(dev, ok1, ok2) ==
    [ device |-> write_battery_power(set_external_control(dev, TRUE, ok1),
                                     charge_power, ok2),
      commands |-> << [name |-> "set_external_control", value |-> 1, ok |-> ok1],
                      [name |-> "write_battery_power", value |-> charge_power, ok |-> ok2] >>,
      inverter |-> [mode |-> "auto_charging", control_mode |-> "external"],
      switched |-> TRUE ]

\* the loop stops charging
StopCharging(dev, ok1, ok2) ==
    [ device |-> set_external_control(write_battery_power(dev, 0, ok1),
                                      FALSE, ok2),
      commands |-> << [name |-> "write_battery_power", value |-> 0, ok |-> ok1],
                      [name |-> "set_external_control", value |-> 0, ok |-> ok2] >>,
      inverter |-> [mode |-> "automatic", control_mode |-> "internal"],
      switched |-> TRUE ]

\* float(ha_client.get_state(...) or 0)
CurrentSoc(soc_value) == IF soc_value.kind = "number" THEN soc_value.value ELSE 0

\* mutant of ScheduleAfter: whatever the planner returned is stored
ScheduleAfter_Unguarded(stored, schedule) == schedule

\* if schedule: app_state['daily_battery_schedule'] = schedule
ScheduleAfter(stored, schedule) == IF schedule # NoPlan THEN schedule ELSE stored

\* mutant of ShouldCharge: the plan is asked before the battery is found full
ShouldCharge_PlanBeforeFull(soc, schedule) ==
    IF soc < min_soc THEN TRUE
    ELSE IF schedule # NoPlan THEN ChargeNowFromPlan(schedule)
    ELSE FALSE

\* should_charge of one cycle
ShouldCharge(soc, schedule) ==
    IF soc < min_soc THEN TRUE
    ELSE IF soc >= max_soc THEN FALSE
    ELSE IF schedule # NoPlan THEN ChargeNowFromPlan(schedule)
    ELSE FALSE

current_mode_is_charging(mode) == mode \in {"manual_charging", "auto_charging"}

\* mutant of CanSwitch: no hysteresis
CanSwitch_Always(wants_mode_change, last_switch, t, should_charge, soc) == TRUE

\* can_switch of one cycle
CanSwitch(wants_mode_change, last_switch, t, should_charge, soc) ==
    LET is_safety_charge == should_charge /\ soc < min_soc
    IN  ~ ( /\ wants_mode_change
            /\ last_switch # NoTime
            /\ t - last_switch < mode_switch_hysteresis_seconds
            /\ ~ is_safety_charge )

\* the cycle's action: start, stop or neither
ModeAction(dev, recorded, should_charge, can_switch, ok1, ok2) ==
    LET charging == current_mode_is_charging(recorded.mode)
    IN  IF should_charge /\ ~charging /\ can_switch
        THEN StartCharging(dev, ok1, ok2)
        ELSE IF ~should_charge /\ charging /\ can_switch
        THEN StopCharging(dev, ok1, ok2)
        ELSE [device |-> dev, commands |-> <<>>, inverter |-> recorded,
              switched |-> FALSE]

ControllerStarting ==
    /\ loop_pc = "start"
    /\ loop_now = 0
    /\ cycle = 0
    /\ last_plan_update = NoTime
    /\ last_mode_switch_time = NoTime
    /\ controller_running = TRUE
    /\ daily_battery_schedule = NoPlan
    /\ plan_outcome = "skipped"
    /\ inverter = [mode |-> "automatic", control_mode |-> "internal"]
    /\ device = [external_control |-> FALSE, battery_power |-> 0]
    /\ commands = <<>>
    /\ cycle_locals = [ran |-> FALSE, current_soc |-> 0, should_charge |-> FALSE,
                       can_switch |-> TRUE]
    /\ reader_pc = "idle"
    /\ reader_schedule = NoPlan
    /\ reader_view = [charging_windows |-> <<>>, start_time |-> NoTime]

Init == Idle /\ StoreIdle /\ ControllerStarting

\* the call with a working learner: lines 316-493
Invoke ==
    /\ pc = "idle"
    /\ \E soc \in SocValues, power \in MaxChargePowers, cons \in ConsumptionInputs,
          pv \in PvInputs, price \in PriceInputs :
        /\ current_soc' = soc
        /\ max_charge_power' = power
        /\ cons_data' = cons
        /\ pv_data' = pv
        /\ price_data' = price
        /\ hourly_consumption' = ForecastConsumption(cons)
        /\ hourly_pv' = ForecastPv(pv)
        /\ hourly_prices' = ForecastPrices(price)
        /\ baseline_soc' = BaselineSoc(soc, hourly_pv', hourly_consumption')
        /\ deficit_hours' = DeficitHours(baseline_soc')
        /\ peaks' = Peaks(hourly_prices')
        /\ hourly_charging' = ZeroCharging
        /\ pc' = ChargingStrategy(peaks', deficit_hours')
    /\ UNCHANGED <<consumption_learner, peak_idx, charging_windows, jit_log, result>>
    /\ UNCHANGED <<store_vars, controller_vars>>

\* the call without a learner (lines 312-314), or with a learner whose query
\* raises (consumption_learner.py lines 937-966 have no handler, the planner's
\* lines 816-818 catch it): None is returned before any forecast is built
InvokeWithoutLearner ==
    /\ pc = "idle"
    /\ \E learner \in {"absent", "error"} : consumption_learner' = learner
    /\ pc' = "done"
    /\ result' = NoPlan
    /\ UNCHANGED <<current_soc, max_charge_power, cons_data, pv_data, price_data,
                   forecasts, peak_idx, hourly_charging, charging_windows, jit_log>>
    /\ UNCHANGED <<store_vars, controller_vars>>

\* one pass of the loop over the peaks, lines 498-713
PlanPeak ==
    /\ pc = "peak"
    /\ LET peak == peaks[peak_idx + 1]
           st == Refine(0, JitSetup(peaks, peak_idx),
                        SearchStart(peaks, peak_idx), PeakEnd(peak))
           plan == CommitPeak(st, [charging |-> hourly_charging,
                                   windows |-> charging_windows],
                              PeakStart(peak))
       IN  /\ hourly_charging' = plan.charging
           /\ charging_windows' = plan.windows
           /\ jit_log' = Append(jit_log, st)
    /\ peak_idx' = peak_idx + 1
    /\ pc' = IF peak_idx + 1 < Len(peaks) THEN "peak" ELSE "final"
    /\ UNCHANGED <<inputs, forecasts, result>>
    /\ UNCHANGED <<store_vars, controller_vars>>

\* lines 718-756
Fallback ==
    /\ pc = "fallback"
    /\ LET plan == FallbackPlan([charging |-> hourly_charging,
                                 windows |-> charging_windows])
       IN  /\ hourly_charging' = plan.charging
           /\ charging_windows' = plan.windows
    /\ pc' = "final"
    /\ UNCHANGED <<inputs, forecasts, peak_idx, jit_log, result>>
    /\ UNCHANGED <<store_vars, controller_vars>>

\* lines 769-814
Finalize ==
    /\ pc = "final"
    /\ result' = ReturnedPlan
    /\ pc' = "done"
    /\ UNCHANGED <<inputs, forecasts, peak_idx, hourly_charging, charging_windows,
                   jit_log>>
    /\ UNCHANGED <<store_vars, controller_vars>>

\* the call has returned; the planner keeps nothing of it
Return ==
    /\ pc = "done"
    /\ pc' = "idle"
    /\ consumption_learner' = "ok"
    /\ current_soc' = 0 /\ max_charge_power' = 0
    /\ cons_data' = <<>> /\ pv_data' = <<>> /\ price_data' = <<>>
    /\ hourly_consumption' = <<>> /\ hourly_pv' = <<>> /\ hourly_prices' = <<>>
    /\ baseline_soc' = <<>> /\ deficit_hours' = <<>> /\ peaks' = <<>>
    /\ peak_idx' = 0
    /\ hourly_charging' = <<>> /\ charging_windows' = <<>>
    /\ jit_log' = <<>>
    /\ result' = NoPlan
    /\ UNCHANGED <<store_vars, controller_vars>>

Next == Invoke \/ InvokeWithoutLearner \/ PlanPeak \/ Fallback \/ Finalize \/ Return

Spec == Init /\ [][Next]_vars

(***************************************************************************)
(* The store's operations.  The planner is idle meanwhile.                 *)
(***************************************************************************)
\* controller_loop records the consumption of the running hour at the time
\* of the call (app.py line 3160)
RecordConsumption ==
    /\ op_count < MaxOps
    /\ \E consumption_kwh \in RecordValues :
        /\ store' = record_consumption(store, clock, consumption_kwh, clock)
        /\ last_op' = [NoOp EXCEPT !.name = "record", !.timestamp = clock,
                                   !.value = consumption_kwh]
    /\ op_count' = op_count + 1
    /\ UNCHANGED <<clock, planner_vars, controller_vars>>

ImportDetailedHistory ==
    /\ op_count < MaxOps
    /\ \E daily_data \in ImportBatches :
        LET done == import_detailed_history(store, daily_data, clock)
        IN  /\ store' = done.store
            /\ last_op' = [NoOp EXCEPT !.name = "import", !.daily_data = daily_data,
                                       !.returned = done.returned]
    /\ op_count' = op_count + 1
    /\ UNCHANGED <<clock, planner_vars, controller_vars>>

\* an hour passes
Tick ==
    /\ clock < StartClock + MaxTicks * MinutesPerHour
    /\ clock' = clock + MinutesPerHour
    /\ UNCHANGED <<store, op_count, last_op, planner_vars, controller_vars>>

StoreNext == RecordConsumption \/ ImportDetailedHistory \/ Tick

StoreSpec == Init /\ [][StoreNext]_vars

\* every product with 1.5 and 1.1 was a whole number of units
ArithmeticExact ==
    \A i \in 1 .. Len(jit_log) : jit_log[i].exact

(***************************************************************************)
(* Properties of the returned plan.                                        *)
(***************************************************************************)
\* the call has returned a plan
Returned == pc = "done" /\ result # NoPlan

\* what the claims allow for floating rounding: 0.001 % SOC
Rounding == PCT \div 1000

\* the SOC change of hour i-1 from the plan's own arrays, in SOC units
PlanDelta(i) ==
    KwhToPct(result.hourly_pv[i - 1] + result.hourly_charging[i - 1]
             - result.hourly_consumption[i - 1])

----------------------------------------------------------------------------
\* C1 as stated: every entry of hourly_soc, index 0 included, lies within
\* [min_soc_pct, max_soc_pct] (up to rounding).
C1_AllWithinLimits ==
    Returned =>
        \A i \in Hours :
            /\ result.hourly_soc[i] >= min_soc * PCT - Rounding
            /\ result.hourly_soc[i] <= max_soc * PCT + Rounding

\* C1 amended: hourly_soc[0] is current_soc as given; every later entry is at
\* least min_soc_pct and at most the larger of max_soc_pct and the entry before
\* it, so the whole trajectory is within the limits whenever current_soc is.
C1_WithinLimitsAfterStart ==
    Returned =>
        /\ result.hourly_soc[0] = current_soc
        /\ \A i \in Hours \ {0} :
              /\ result.hourly_soc[i] >= min_soc * PCT
              /\ result.hourly_soc[i] <= Max(max_soc * PCT, result.hourly_soc[i - 1])
        /\ (current_soc >= min_soc * PCT /\ current_soc <= max_soc * PCT) =>
              \A i \in Hours : /\ result.hourly_soc[i] >= min_soc * PCT
                               /\ result.hourly_soc[i] <= max_soc * PCT

\* C1 witness: a plan that starts above max_soc_pct and is still above it an
\* hour later, and then comes down into the limits
C1_Witness ==
    /\ Returned
    /\ current_soc > max_soc * PCT
    /\ result.hourly_soc[1] > max_soc * PCT
    /\ result.hourly_soc[LookaheadHours - 1] <= max_soc * PCT

----------------------------------------------------------------------------
\* C2: every hour's planned charging is between 0 and max_charge_power, on
\* the per-peak path and on the fallback path.
C2_ChargingBounds ==
    Returned =>
        \A i \in Hours : /\ result.hourly_charging[i] >= 0
                         /\ result.hourly_charging[i] <= max_charge_power

\* C2 witness: a plan with one hour at full power and one hour with less
C2_Witness ==
    /\ Returned
    /\ \E i, j \in Hours :
          /\ result.hourly_charging[i] = max_charge_power
          /\ result.hourly_charging[j] > 0
          /\ result.hourly_charging[j] < max_charge_power

----------------------------------------------------------------------------
\* C3 as stated: hourly_soc[0] = current_soc and every later entry is the
\* entry before it plus (pv + charging - consumption) / capacity * 100 of the
\* hour before, clamped to [min_soc_pct, max_soc_pct].
C3_ClampedBothWays ==
    Returned =>
        /\ result.hourly_soc[0] = current_soc
        /\ \A i \in Hours \ {0} :
              result.hourly_soc[i] =
                  Max(min_soc * PCT,
                      Min(max_soc * PCT, result.hourly_soc[i - 1] + PlanDelta(i)))

\* C3 amended: as stated, but the upper clamp to max_soc_pct applies only when
\* the hour's net energy is positive; the lower clamp to min_soc_pct always.
C3_Reconstructible ==
    Returned =>
        /\ result.hourly_soc[0] = current_soc
        /\ \A i \in Hours \ {0} :
              LET stepped == result.hourly_soc[i - 1] + PlanDelta(i)
              IN  result.hourly_soc[i] =
                      Max(min_soc * PCT,
                          IF PlanDelta(i) > 0 THEN Min(max_soc * PCT, stepped)
                          ELSE stepped)

\* C3 witness: a plan with charging whose trajectory is clamped at the top in
\* one hour and at the bottom in another
C3_Witness ==
    /\ Returned
    /\ \E h \in Hours : result.hourly_charging[h] > 0
    /\ \E i \in Hours \ {0} :
          result.hourly_soc[i - 1] + PlanDelta(i) > max_soc * PCT /\ PlanDelta(i) > 0
    /\ \E i \in Hours \ {0} :
          result.hourly_soc[i - 1] + PlanDelta(i) < min_soc * PCT

----------------------------------------------------------------------------
\* C4: when the baseline stays above min_soc + 5 in every hour, the plan has
\* no charging window and charges nothing, whatever the prices.
C4_NoDeficitNoCharging ==
    (Returned /\ \A i \in Hours : baseline_soc[i] > (min_soc + DeficitBufferPct) * PCT) =>
        /\ result.charging_windows = <<>>
        /\ \A h \in Hours : result.hourly_charging[h] = 0

\* C4 witness: such a plan, with two price peaks in the window
C4_Witness ==
    /\ Returned
    /\ \A i \in Hours : baseline_soc[i] > (min_soc + DeficitBufferPct) * PCT
    /\ Len(peaks) = 2
    /\ result.charging_windows = <<>>

----------------------------------------------------------------------------
\* C5 as stated: the call always returns a plan, and that plan's inputs are
\* the fallback constants in every hour that lacks data.
C5_AlwaysAPlan ==
    pc = "done" =>
        /\ result # NoPlan
        /\ \A h \in Hours :
              /\ cons_data[h] = NoData => result.hourly_consumption[h] = KWH
              /\ pv_data[h] = NoData => result.hourly_pv[h] = 0
              /\ price_data[h] = NoData => result.hourly_prices[h] = PriceFallback

----------------------------------------------------------------------------
\* C6: every window committed for a peak is strictly after the previous
\* peak's last hour and strictly before the peak's first hour, and no hour
\* within a peak's range is charged.
C6_NoChargingInPeaks ==
    Returned =>
        /\ \A i \in 1 .. Len(result.charging_windows) :
              LET w == result.charging_windows[i]
              IN  w.reason[1] = "Peak" =>
                    /\ w.hour < PeakStart(peaks[w.reason[2]])
                    /\ w.reason[2] > 1 => w.hour > PeakEnd(peaks[w.reason[2] - 1])
        /\ \A k \in 1 .. Len(peaks) :
              \A h \in PeakStart(peaks[k]) .. PeakEnd(peaks[k]) :
                  result.hourly_charging[h] = 0

\* C6 witness: two peaks with windows committed for both, the second peak's
\* window expanded back to the hour after the first peak
C6_Witness ==
    /\ Returned
    /\ Len(peaks) = 2
    /\ \A k \in {1, 2} :
          \E i \in 1 .. Len(result.charging_windows) :
              result.charging_windows[i].reason = <<"Peak", k>>
    /\ \E i \in 1 .. Len(result.charging_windows) :
          /\ result.charging_windows[i].reason = <<"Peak", 2>>
          /\ result.charging_windows[i].hour = PeakEnd(peaks[1]) + 1

----------------------------------------------------------------------------
\* C7 as stated: an hour's planned charging never exceeds the headroom left
\* below max_soc at the start of that hour, so that the upper clamp of the
\* final trajectory never has to take planned charge away.  The formula asks
\* for the least the claim says: a charged hour stays within the headroom, or
\* at least its net energy is not cut by the upper clamp.
C7_CappedByHeadroom ==
    Returned =>
        \A h \in Hours \ {LookaheadHours - 1} :
            result.hourly_charging[h] > 0 =>
                \/ result.hourly_charging[h] <= max_kwh - PctToKwh(result.hourly_soc[h])
                \/ PctToKwh(result.hourly_soc[h])
                     + result.hourly_pv[h] + result.hourly_charging[h]
                     - result.hourly_consumption[h] <= max_kwh

----------------------------------------------------------------------------
\* C8: an hour has nonzero hourly_charging exactly when charging_windows has
\* an entry for it, and the controller reads "charge now" from the plan
\* exactly when hourly_charging[0] is nonzero.
C8_SignalsAgree ==
    Returned =>
        /\ \A h \in Hours :
              result.hourly_charging[h] # 0 <=>
                  \E i \in 1 .. Len(result.charging_windows) :
                      result.charging_windows[i].hour = h
        /\ ChargeNowFromPlan(result) <=> result.hourly_charging[0] # 0

\* C8 witness: a plan that charges now and, after a pause, again later
C8_Witness ==
    /\ Returned
    /\ ChargeNowFromPlan(result)
    /\ \E h, g \in Hours : /\ h < g
                           /\ result.hourly_charging[h] = 0
                           /\ result.hourly_charging[g] > 0

----------------------------------------------------------------------------
RECURSIVE SumWindows(_, _)
SumWindows(windows, n) ==
    IF n = 0 THEN 0 ELSE windows[n].charge_kwh + SumWindows(windows, n - 1)

SamplesAt(st, hour, weekday_filter) ==
    { k \in DOMAIN st :
        /\ HourOf(k) = hour
        /\ weekday_filter = NoFilter \/ Weekday(DateOf(k)) = weekday_filter }

\* x is total / n, rounded down to a whole unit
IsMean(x, total, n) == n * x <= total /\ total < n * (x + 1)

\* the step is a call of a store operation
StoreCall == op_count' # op_count
\* the retention cutoff of a call made now
Cutoff(now) == now - learning_days * MinutesPerDay
\* the timestamps of the 24 hours of a date
DayKeys(date) == { AtHour(date, h) : h \in DayHours }

----------------------------------------------------------------------------
\* C11: average(hour, target_date) is what it would be if the store held
\* only the samples of that hour on that weekday: samples of other hours
\* and other weekdays never change it.
C11_WeekdayIsolation ==
    \A hour \in DayHours, weekday \in 0 .. (DaysPerWeek - 1) :
        StoreAverage(store, hour, weekday) =
            StoreAverage([k \in SamplesAt(store, hour, weekday) |-> store[k]],
                         hour, weekday)

\* C11 witness: one hour has samples on two weekdays with different
\* averages, and the store has samples of other hours as well
C11_Witness ==
    \E hour \in DayHours, a, b \in 0 .. (DaysPerWeek - 1) :
        /\ SamplesAt(store, hour, a) # {} /\ SamplesAt(store, hour, b) # {}
        /\ StoreAverage(store, hour, a) # StoreAverage(store, hour, b)
        /\ \E k \in DOMAIN store : HourOf(k) # hour

----------------------------------------------------------------------------
\* C12 as stated: average(hour, target_date) is the fallback constant
\* exactly when no stored sample matches, and otherwise the mean of the
\* matching samples.
C12_MeanOrFallback ==
    \A hour \in DayHours, weekday_filter \in WeekdayFilters :
        LET keys == SamplesAt(store, hour, weekday_filter)
            avg == StoreAverage(store, hour, weekday_filter)
        IN  IF keys = {} THEN avg = default_fallback
            ELSE /\ avg # default_fallback
                 /\ IsMean(avg, SumKwh(store, keys), Cardinality(keys))

----------------------------------------------------------------------------
RECURSIVE Total(_, _)
Total(f, S) ==
    IF S = {} THEN 0
    ELSE LET x == CHOOSE y \in S : TRUE IN f[x] + Total(f, S \ {x})

\* C13: the profile has a value for each of the 24 hours: the mean of the
\* hour's matching samples, or for an hour without any the mean of the hours
\* that have data, or the fallback constant when no sample matches at all.
C13_ProfileComplete ==
    \A weekday_filter \in WeekdayFilters :
        LET profile == get_hourly_profile(store, weekday_filter)
            with_data == { h \in DayHours : SamplesAt(store, h, weekday_filter) # {} }
        IN  /\ DOMAIN profile = DayHours
            /\ \A h \in with_data :
                  IsMean(profile[h], SumKwh(store, SamplesAt(store, h, weekday_filter)),
                         Cardinality(SamplesAt(store, h, weekday_filter)))
            /\ \A h \in DayHours \ with_data :
                  IF with_data = {} THEN profile[h] = default_fallback
                  ELSE IsMean(profile[h], Total(profile, with_data),
                              Cardinality(with_data))

\* C13 witness: a weekday with data for some hours only, with different
\* averages among them
C13_Witness ==
    \E weekday \in 0 .. (DaysPerWeek - 1) :
        LET profile == get_hourly_profile(store, weekday)
        IN  \E g, h, e \in DayHours :
                /\ SamplesAt(store, g, weekday) # {}
                /\ SamplesAt(store, h, weekday) # {}
                /\ SamplesAt(store, e, weekday) = {}
                /\ profile[g] # profile[h]
                /\ profile[e] # default_fallback

----------------------------------------------------------------------------
\* C14 as stated: the planner's consumption forecast of rolling hour i is the
\* hourly profile of that hour's date at that hour's hour of day.
C14_ForecastIsProfile ==
    LET hourly == ForecastConsumption(StoreConsData(store, clock))
        profiles == [w \in 0 .. (DaysPerWeek - 1) |-> get_hourly_profile(store, w)]
    IN  \A i \in Hours :
            hourly[i] = profiles[Weekday(TargetDate(clock, i))][TargetHour(clock, i)]

----------------------------------------------------------------------------
\* the days of a batch by what is wrong with them
ShortDays(daily_data) ==
    { i \in 1 .. Len(daily_data) : Len(daily_data[i].hours) # HoursPerDay }
MalformedDays(daily_data) ==
    { i \in 1 .. Len(daily_data) :
        Len(daily_data[i].hours) = HoursPerDay /\ daily_data[i].not_a_number # NoData }
ValidDays(daily_data) ==
    (1 .. Len(daily_data)) \ (ShortDays(daily_data) \cup MalformedDays(daily_data))

\* C15: a day without exactly 24 values is skipped whole: it counts 1 in
\* skipped_days and 0 in imported_hours, nothing of it is stored, and the
\* valid days of the batch are imported all the same.
C15_ShortDaySkipped ==
    [][(StoreCall /\ last_op'.name = "import") =>
        LET daily_data == last_op'.daily_data
            returned == last_op'.returned
        IN  /\ MalformedDays(daily_data) = {} =>
                  /\ returned.skipped_days = Cardinality(ShortDays(daily_data))
                  /\ returned.imported_hours =
                         HoursPerDay * Cardinality(ValidDays(daily_data))
            /\ \A i \in ShortDays(daily_data) :
                  \A k \in DayKeys(daily_data[i].date) :
                      k \in DOMAIN store' => k \in DOMAIN store /\ store'[k] = store[k]
            /\ \A i \in ValidDays(daily_data) :
                  \A k \in DayKeys(daily_data[i].date) :
                      ~(k < Cutoff(clock)) =>
                          /\ k \in DOMAIN store'
                          /\ store'[k].is_manual
                          /\ store'[k].created_at = clock
    ]_vars

\* C15 witness: a batch of a 23-value day and a valid day has been imported
C15_Witness ==
    /\ last_op.name = "import"
    /\ Len(last_op.daily_data) = 2
    /\ ShortDays(last_op.daily_data) = {1}
    /\ ValidDays(last_op.daily_data) = {2}
    /\ last_op.returned.skipped_days = 1
    /\ last_op.returned.imported_hours = HoursPerDay
    /\ DayKeys(last_op.daily_data[2].date) \subseteq DOMAIN store
    /\ DayKeys(last_op.daily_data[1].date) \cap DOMAIN store = {}

----------------------------------------------------------------------------
\* C16 as stated: of every day of the batch, all 24 samples have been
\* written by the call or none has (samples the retention pruning of the
\* same call removes aside), and a day counted in skipped_days has nothing
\* written and adds nothing to imported_hours.
C16_NoPartialDay ==
    [][(StoreCall /\ last_op'.name = "import") =>
        LET daily_data == last_op'.daily_data
            kept(i) == { k \in DayKeys(daily_data[i].date) : ~(k < Cutoff(clock)) }
            written(i) == { k \in kept(i) :
                              /\ k \in DOMAIN store'
                              /\ store'[k].is_manual
                              /\ store'[k].created_at = clock }
            skipped == ShortDays(daily_data) \cup MalformedDays(daily_data)
        IN  /\ \A i \in 1 .. Len(daily_data) : written(i) \in {{}, kept(i)}
            /\ \A i \in skipped :
                  \A k \in kept(i) :
                      k \in DOMAIN store' => k \in DOMAIN store /\ store'[k] = store[k]
            /\ last_op'.returned.imported_hours =
                   HoursPerDay * (Len(daily_data) - Cardinality(skipped))
    ]_vars

----------------------------------------------------------------------------
\* C17: record with a value below 0 or above 100 leaves the store as it
\* was; with a value from 0 to 100 the sample is stored for its hour.
C17_RecordValidation ==
    [][(StoreCall /\ last_op'.name = "record") =>
        LET v == last_op'.value
            k == FullHour(last_op'.timestamp)
        IN  IF v < 0 \/ v > 100 * KWH THEN store' = store
            ELSE k \in DOMAIN store' /\ store'[k].consumption_kwh = v
    ]_vars

\* C17 witness: a value above 100 has been rejected for an hour that holds
\* the largest value record accepts
C17_Witness ==
    /\ last_op.name = "record"
    /\ last_op.value > 100 * KWH
    /\ FullHour(last_op.timestamp) \in DOMAIN store
    /\ store[FullHour(last_op.timestamp)].consumption_kwh = 100 * KWH

----------------------------------------------------------------------------
\* the last day of the batch that writes the timestamp k, or 0
LastWriter(daily_data, k) ==
    LET writers == { i \in 1 .. Len(daily_data) :
                       /\ DateOf(k) = daily_data[i].date
                       /\ HourOf(k) \in HoursInserted(daily_data[i]) }
    IN  IF writers = {} THEN 0 ELSE CHOOSE i \in writers : \A j \in writers : j <= i

\* C18: the store never holds two samples of one hour slot; an accepted
\* record replaces the sample of its hour with its value, tagged learned,
\* and an import leaves in each slot it writes its (clamped) value, tagged
\* manual.
C18_OneSamplePerSlot ==
    [][StoreCall =>
        /\ \A j, k \in DOMAIN store' : FullHour(j) = FullHour(k) => j = k
        /\ (last_op'.name = "record" /\ RecordAccepted(last_op'.value)) =>
              LET k == FullHour(last_op'.timestamp)
              IN  /\ k \in DOMAIN store'
                  /\ store'[k].consumption_kwh = last_op'.value
                  /\ ~store'[k].is_manual
        /\ last_op'.name = "import" =>
              \A k \in DOMAIN store' :
                  LET i == LastWriter(last_op'.daily_data, k)
                  IN  IF i = 0 THEN k \in DOMAIN store /\ store'[k] = store[k]
                      ELSE /\ store'[k].is_manual
                           /\ store'[k].consumption_kwh =
                                  Max(0, Min(50 * KWH,
                                             last_op'.daily_data[i].hours[HourOf(k) + 1]))
    ]_vars

\* C18 witness: a record at 20 past the hour has replaced the imported
\* sample of that hour; the other hours of the day are still the imported
\* ones
C18_Witness ==
    /\ last_op.name = "record"
    /\ last_op.timestamp % MinutesPerHour # 0
    /\ FullHour(last_op.timestamp) \in DOMAIN store
    /\ ~store[FullHour(last_op.timestamp)].is_manual
    /\ \A k \in DayKeys(DateOf(last_op.timestamp)) \ {FullHour(last_op.timestamp)} :
          k \in DOMAIN store /\ store[k].is_manual

----------------------------------------------------------------------------
\* what average() uses for one date and hour: the average over that date
\* alone
UsedFor(st, k) ==
    AverageQuery([j \in {x \in DOMAIN st : DateOf(x) = DateOf(k)} |-> st[j]],
                 HourOf(k), NoFilter)

\* C19 as stated: once a learned and an imported sample have been written
\* for a date and hour, the averages use the learned value, whichever was
\* written last: a record over an imported sample, or an import over a
\* learned one.
C19_LearnedWins ==
    [][StoreCall =>
        /\ (last_op'.name = "record" /\ RecordAccepted(last_op'.value)) =>
              UsedFor(store', FullHour(last_op'.timestamp)) = last_op'.value
        /\ last_op'.name = "import" =>
              \A k \in DOMAIN store :
                  (/\ ~store[k].is_manual
                   /\ ~(k < Cutoff(clock))
                   /\ LastWriter(last_op'.daily_data, k) # 0) =>
                      UsedFor(store', k) = store[k].consumption_kwh
    ]_vars

----------------------------------------------------------------------------
\* C20: right after an accepted record and after an import, no sample is
\* older than the retention window, and every sample that was inside the
\* window is still there.
C20_Retention ==
    [][(StoreCall /\ (last_op'.name = "record" => RecordAccepted(last_op'.value))) =>
        /\ \A k \in DOMAIN store' : ~(k < clock - 28 * MinutesPerDay)
        /\ \A k \in DOMAIN store : ~(k < clock - 28 * MinutesPerDay) => k \in DOMAIN store'
    ]_vars

\* C20 witness: an import of the day on the edge of the window has kept the
\* hour that is inside the window and dropped the hour before it
C20_Witness ==
    /\ last_op.name = "import"
    /\ last_op.daily_data[1].date = EdgeDay
    /\ clock = StartClock
    /\ AtHour(EdgeDay, HourOf(StartClock) + 1) \in DOMAIN store
    /\ AtHour(EdgeDay, HourOf(StartClock)) \notin DOMAIN store

(***************************************************************************)
(* Properties of the planner's passes.                                     *)
(***************************************************************************)
\* the forecasts and the peaks of the running invocation have been built
Analysed == pc \in {"peak", "fallback", "final"} \/ Returned

\* the expensive hours, as a set
Expensive == { h \in Hours : IsExpensive(hourly_prices, h) }
\* the hours of a peak, as a set
PeakHours(peak) == { peak[i] : i \in 1 .. Len(peak) }
\* g and h are expensive hours with no expensive hour between them
AdjacentExpensive(expensive, g, h) ==
    /\ g \in expensive /\ h \in expensive /\ g < h
    /\ \A x \in expensive : ~(g < x /\ x < h)
\* the peak an expensive hour is in
PeakOf(h) == CHOOSE i \in 1 .. Len(peaks) : h \in PeakHours(peaks[i])

----------------------------------------------------------------------------
\* C27: the peaks partition the expensive hours: every expensive hour is in
\* exactly one peak and no other hour is in any; the peaks and their hours
\* are in ascending order; two adjacent expensive hours share a peak exactly
\* when they are at most 3 hours apart, so consecutive peaks are more than 3
\* hours apart.
C27_PeaksPartition ==
    Analysed =>
        LET expensive == Expensive
        IN  /\ \A h \in Hours :
                  Cardinality({ i \in 1 .. Len(peaks) : h \in PeakHours(peaks[i]) })
                      = (IF h \in expensive THEN 1 ELSE 0)
            /\ \A i \in 1 .. Len(peaks) :
                  /\ peaks[i] # <<>>
                  /\ \A a, b \in 1 .. Len(peaks[i]) :
                        a < b => peaks[i][a] < peaks[i][b]
            /\ \A i \in 1 .. (Len(peaks) - 1) :
                  PeakStart(peaks[i + 1]) - PeakEnd(peaks[i]) > 3
            /\ \A g, h \in expensive :
                  AdjacentExpensive(expensive, g, h) =>
                      ((PeakOf(g) = PeakOf(h)) <=> (h - g <= 3))

\* C27 witness: two peaks whose expensive hours are 4 hours apart, the
\* smallest gap that separates
C27_Witness ==
    /\ Analysed
    /\ Len(peaks) = 2
    /\ PeakStart(peaks[2]) - PeakEnd(peaks[1]) = 4

----------------------------------------------------------------------------
\* the planned peaks: jit_log[i] is what the loop ended with for peaks[i]
PlannedPeaks == 1 .. Len(jit_log)
\* the width of the initial window [jit_start, peak_start - 1] of peak i
InitialWidth(i) == PeakStart(peaks[i]) - jit_log[i].initial_jit_start
\* the initial window of peak i starts after the previous peak, and after
\* every hour charged for an earlier peak
ClearOfPreviousPeak(i) ==
    /\ jit_log[i].initial_jit_start >= SearchStart(peaks, i - 1)
    /\ i > 1 => jit_log[i].initial_jit_start > PeakEnd(peaks[i - 1])
    /\ \A w \in 1 .. Len(charging_windows) :
          charging_windows[w].reason[2] < i =>
              charging_windows[w].hour < jit_log[i].initial_jit_start

\* C26 as stated: the initial just-in-time window of every peak is at least
\* 3 hours wide and starts no earlier than the hour after the previous
\* peak's last hour.
C26_WindowThreeWide ==
    \A i \in PlannedPeaks : InitialWidth(i) >= 3 /\ ClearOfPreviousPeak(i)

\* C26 amended: the initial window starts no earlier than the hour after
\* the previous peak's last hour (hour 0 for the first peak) and is as wide
\* as that allows up to 3 hours: at least 3 hours for every peak after the
\* first, and for the first peak when it starts at hour 3 or later.
C26_WindowAsWideAsPossible ==
    \A i \in PlannedPeaks :
        /\ ClearOfPreviousPeak(i)
        /\ InitialWidth(i) >= Min(3, PeakStart(peaks[i]) - SearchStart(peaks, i - 1))
        /\ (i > 1 \/ PeakStart(peaks[i]) >= 3) => InitialWidth(i) >= 3

\* C26 witness: the first peak starts at hour 1 and has a window of one
\* hour; the second peak's window is 3 hours wide, starts right after the
\* first peak, and charging was committed for the first peak
C26_Witness ==
    /\ Len(jit_log) = 2
    /\ PeakStart(peaks[1]) = 1 /\ InitialWidth(1) = 1
    /\ InitialWidth(2) = 3
    /\ jit_log[2].initial_jit_start = PeakEnd(peaks[1]) + 1
    /\ \E w \in 1 .. Len(charging_windows) : charging_windows[w].reason[2] = 1

----------------------------------------------------------------------------
\* the step plans a peak
PlansPeak == pc = "peak" /\ peak_idx' = peak_idx + 1
\* what the loop ended with for the peak planned in this step
Planned == jit_log'[Len(jit_log')]
\* the SOC at hour h reached by stepping hour by hour from current_soc with
\* the clamping of the final trajectory and the charging committed so far
SteppedKwh(h) ==
    FinalKwh(h, current_soc, hourly_pv, hourly_consumption, hourly_charging)

\* C25 as stated: the SOC the planner assumes at the start of a peak's
\* just-in-time window, initially and after an expansion of the window, is
\* the SOC of the hour-by-hour trajectory at that hour.
C25_JitStartSocIsStepped ==
    [][PlansPeak =>
        /\ JitSetup(peaks, peak_idx).soc_at_jit_start_kwh =
               SteppedKwh(Planned.initial_jit_start)
        /\ Planned.soc_at_jit_start_kwh = SteppedKwh(Planned.jit_start)
    ]_vars

----------------------------------------------------------------------------
\* the planner's simulation of the peak planned in this step, from the
\* start of its window through the peak's end, with the charging committed
\* for earlier peaks and no new charging: the lowest SOC it sees
LowestWithoutCharging ==
    LET st == JitSetup(peaks, peak_idx)
        peak_end == PeakEnd(peaks[peak_idx + 1])
    IN  SimulatePeak(st.jit_start, Min(peak_end + 1, LookaheadHours) - 1,
                     st.soc_at_jit_start_kwh, st.soc_at_jit_start_kwh, st.jit_start,
                     ZeroCharging, hourly_pv, hourly_consumption,
                     hourly_charging).lowest_soc_kwh

\* C24 as stated: when the simulated SOC stays at or above the target floor
\* (min_soc + 15 %) from the window's start through the peak's end without
\* new charging, no charging window is committed for the peak.
C24_NoChargeWhenNotNeeded ==
    [][(PlansPeak /\ LowestWithoutCharging >= target_lowest_kwh) =>
        charging_windows' = charging_windows
    ]_vars

----------------------------------------------------------------------------
\* the windows committed in this step, in the order they were committed
NewWindows == SubSeq(charging_windows', Len(charging_windows) + 1, Len(charging_windows'))
\* the members of a sequence
Members(seq) == { seq[i] : i \in 1 .. Len(seq) }

\* C23: the hours charged for a peak are the cheapest of the peak's
\* available window hours: an available hour that gets no charge and is not
\* passed over for its high PV is no cheaper than any hour charged for the
\* peak; and only the last hour committed may carry less than
\* max_charge_power.
C23_CheapestFirst ==
    [][PlansPeak =>
        LET available == Members(Planned.available_hours)
            charged == { NewWindows[w].hour : w \in 1 .. Len(NewWindows) }
            peak_start == PeakStart(peaks[peak_idx + 1])
        IN  /\ charged \subseteq available
            /\ \A g \in available \ charged :
                  ~HighPvNearPeak(g, peak_start) =>
                      \A c \in charged : hourly_prices[c] <= hourly_prices[g]
            /\ \A w \in 1 .. (Len(NewWindows) - 1) :
                  NewWindows[w].charge_kwh = max_charge_power
            /\ \A w \in 1 .. Len(NewWindows) :
                  /\ NewWindows[w].charge_kwh > 0
                  /\ NewWindows[w].charge_kwh <= max_charge_power
                  /\ hourly_charging'[NewWindows[w].hour] = NewWindows[w].charge_kwh
    ]_vars

\* C23 witness: the last peak planned has charging in a cheap hour that
\* comes after a dearer available hour left without charge, and its last
\* window carries less than max_charge_power
C23_Witness ==
    /\ pc \in {"peak", "final"} /\ jit_log # <<>>
    /\ LET i == Len(jit_log)
           mine == { w \in 1 .. Len(charging_windows) : charging_windows[w].reason[2] = i }
       IN  /\ Cardinality(mine) >= 2
           /\ \E w \in mine, g \in Members(jit_log[i].available_hours) :
                 /\ hourly_charging[g] = 0
                 /\ g < charging_windows[w].hour
                 /\ hourly_prices[g] > hourly_prices[charging_windows[w].hour]
           /\ charging_windows[Len(charging_windows)].charge_kwh < max_charge_power

----------------------------------------------------------------------------
\* the plan was made by the fallback: deficit hours but no peak
ByFallback == Returned /\ peaks = <<>> /\ deficit_hours # <<>>

\* C22 as stated: in the fallback, charging goes only to hours strictly
\* before the first deficit hour, and the final hourly_soc stays at or above
\* min_soc + 10 % through the first deficit hour.
C22_FallbackKeepsSoc ==
    ByFallback =>
        LET first_deficit_hour == deficit_hours[1]
        IN  /\ \A h \in Hours :
                  result.hourly_charging[h] > 0 => h < first_deficit_hour
            /\ \A w \in 1 .. Len(result.charging_windows) :
                  result.charging_windows[w].hour < first_deficit_hour
            /\ \A h \in 0 .. first_deficit_hour :
                  result.hourly_soc[h] >= (min_soc + 10) * PCT - Rounding

(***************************************************************************)
(* The controller's steps.  The planner and the store are idle meanwhile.  *)
(***************************************************************************)
\* what a planner call at time t hands back
Planned_(outcome, windows, t) ==
    IF outcome = "plan" THEN [charging_windows |-> windows, start_time |-> t]
    ELSE NoPlan

\* controller_loop before its loop: the first plan and the inverter mode that
\* goes with it
Startup ==
    /\ loop_pc = "start"
    /\ \E outcome \in PlannerOutcomes, windows \in PlannedWindows,
          ok1, ok2 \in BOOLEAN :
        LET schedule == Planned_(outcome, windows, loop_now)
            act == IF ChargeNowFromPlan(schedule)
                   THEN StartCharging(device, ok1, ok2)
                   ELSE StopCharging(device, ok1, ok2)
        IN  /\ plan_outcome' = outcome
            /\ IF outcome = "raised"
               THEN UNCHANGED daily_battery_schedule
               ELSE daily_battery_schedule' =
                        ScheduleAfter(daily_battery_schedule, schedule)
            /\ IF outcome = "plan"
               THEN /\ device' = act.device
                    /\ commands' = act.commands
                    /\ inverter' = act.inverter
                    /\ last_mode_switch_time' = loop_now
               ELSE UNCHANGED <<device, commands, inverter, last_mode_switch_time>>
    /\ last_plan_update' = loop_now
    /\ loop_pc' = "plan"
    /\ UNCHANGED <<loop_now, cycle, controller_running, cycle_locals, reader_pc,
                   reader_schedule, reader_view>>
    /\ UNCHANGED <<planner_vars, store_vars>>

\* the loop's plan update, when it is due
UpdateSchedule ==
    /\ loop_pc = "plan"
    /\ IF loop_now - last_plan_update > plan_update_interval
       THEN /\ \E outcome \in PlannerOutcomes, windows \in PlannedWindows :
                /\ plan_outcome' = outcome
                /\ IF outcome = "raised"
                   THEN UNCHANGED daily_battery_schedule
                   ELSE daily_battery_schedule' =
                            ScheduleAfter(daily_battery_schedule,
                                          Planned_(outcome, windows, loop_now))
            /\ last_plan_update' = loop_now
       ELSE /\ plan_outcome' = "skipped"
            /\ UNCHANGED <<daily_battery_schedule, last_plan_update>>
    /\ loop_pc' = "control"
    /\ UNCHANGED <<loop_now, cycle, last_mode_switch_time, controller_running,
                   inverter, device, commands, cycle_locals,
                   reader_pc, reader_schedule, reader_view>>
    /\ UNCHANGED <<planner_vars, store_vars>>

\* the loop's charging decision and what it does about it
AutoOptimization ==
    /\ loop_pc = "control"
    /\ IF controller_running
       THEN \E soc_value \in SocStates, ok1, ok2 \in BOOLEAN :
            IF soc_value.kind = "unavailable"
            THEN \* float('unavailable') raises, the handler of line 3281 logs it
                 /\ commands' = <<>>
                 /\ UNCHANGED <<cycle_locals, device, inverter,
                                last_mode_switch_time>>
            ELSE LET soc == CurrentSoc(soc_value)
                     should_charge == ShouldCharge(soc, daily_battery_schedule)
                     wants_mode_change ==
                         should_charge # current_mode_is_charging(inverter.mode)
                     can_switch == CanSwitch(wants_mode_change, last_mode_switch_time,
                                             loop_now, should_charge, soc)
                     act == ModeAction(device, inverter, should_charge, can_switch,
                                       ok1, ok2)
                 IN  /\ cycle_locals' = [ran |-> TRUE, current_soc |-> soc,
                                         should_charge |-> should_charge,
                                         can_switch |-> can_switch]
                     /\ device' = act.device
                     /\ commands' = act.commands
                     /\ inverter' = act.inverter
                     /\ last_mode_switch_time' =
                            IF act.switched THEN loop_now ELSE last_mode_switch_time
       ELSE /\ commands' = <<>>
            /\ UNCHANGED <<cycle_locals, device, inverter, last_mode_switch_time>>
    /\ loop_pc' = "sleep"
    /\ UNCHANGED <<loop_now, cycle, last_plan_update, controller_running,
                   daily_battery_schedule, plan_outcome, reader_pc,
                   reader_schedule, reader_view>>
    /\ UNCHANGED <<planner_vars, store_vars>>

\* time.sleep(control_interval); the next iteration reads the clock and
\* starts with fresh locals
Sleep ==
    /\ loop_pc = "sleep"
    /\ cycle < MaxCycles
    /\ \E seconds \in CycleSeconds : loop_now' = loop_now + seconds
    /\ cycle' = cycle + 1
    /\ commands' = <<>>
    /\ cycle_locals' = [ran |-> FALSE, current_soc |-> 0, should_charge |-> FALSE,
                        can_switch |-> TRUE]
    /\ plan_outcome' = "skipped"
    /\ loop_pc' = "plan"
    /\ UNCHANGED <<last_plan_update, last_mode_switch_time, controller_running,
                   daily_battery_schedule, inverter, device,
                   reader_pc, reader_schedule, reader_view>>
    /\ UNCHANGED <<planner_vars, store_vars>>

\* POST /api/control, in a thread of its own
ApiControl ==
    /\ \/ \* start_charging
          /\ \E ok1, ok2 \in BOOLEAN :
                device' = StartCharging(device, ok1, ok2).device
          /\ inverter' = [mode |-> "manual_charging", control_mode |-> "external"]
          /\ UNCHANGED controller_running
       \/ \* stop_charging
          /\ \E ok1, ok2 \in BOOLEAN :
                device' = StopCharging(device, ok1, ok2).device
          /\ inverter' = [mode |-> "automatic", control_mode |-> "internal"]
          /\ UNCHANGED controller_running
       \/ \* auto_mode
          /\ controller_running' = TRUE
          /\ inverter' = [inverter EXCEPT !.mode = "automatic"]
          /\ UNCHANGED device
       \/ \* toggle_automation
          /\ \E enabled \in BOOLEAN : controller_running' = enabled
          /\ UNCHANGED <<inverter, device>>
    /\ UNCHANGED <<loop_pc, loop_now, cycle, last_plan_update,
                   last_mode_switch_time, daily_battery_schedule, plan_outcome,
                   commands, cycle_locals, reader_pc, reader_schedule, reader_view>>
    /\ UNCHANGED <<planner_vars, store_vars>>

\* a request handler that reads the plan, in a thread of its own: it takes
\* the plan once, reads charging_windows and then start_time from what it
\* took, answers and forgets
ReadSchedule ==
    /\ \/ \* schedule = app_state.get('daily_battery_schedule')
          /\ reader_pc = "idle"
          /\ reader_schedule' = daily_battery_schedule
          /\ reader_pc' = IF daily_battery_schedule = NoPlan THEN "done"
                          ELSE "windows"
          /\ UNCHANGED reader_view
       \/ \* schedule.get('charging_windows', [])
          /\ reader_pc = "windows"
          /\ reader_view' = [reader_view EXCEPT !.charging_windows =
                                                    reader_schedule.charging_windows]
          /\ reader_pc' = "start_time"
          /\ UNCHANGED reader_schedule
       \/ \* schedule.get('start_time')
          /\ reader_pc = "start_time"
          /\ reader_view' = [reader_view EXCEPT !.start_time =
                                                    reader_schedule.start_time]
          /\ reader_pc' = "done"
          /\ UNCHANGED reader_schedule
       \/ \* return
          /\ reader_pc = "done"
          /\ reader_pc' = "idle"
          /\ reader_schedule' = NoPlan
          /\ reader_view' = [charging_windows |-> <<>>, start_time |-> NoTime]
    /\ UNCHANGED <<loop_pc, loop_now, cycle, last_plan_update,
                   last_mode_switch_time, controller_running,
                   daily_battery_schedule, plan_outcome, inverter, device,
                   commands, cycle_locals>>
    /\ UNCHANGED <<planner_vars, store_vars>>

\* the loop and the manual control of the inverter
ControllerSpec ==
    Init /\ [][Startup \/ UpdateSchedule \/ AutoOptimization \/ Sleep
               \/ ApiControl]_vars

\* the loop and a request that reads the plan
ScheduleSpec ==
    Init /\ [][Startup \/ UpdateSchedule \/ AutoOptimization \/ Sleep
               \/ ReadSchedule]_vars

(***************************************************************************)
(* Properties of the controller.                                           *)
(***************************************************************************)
\* the loop's charging decision is being taken in this step
CycleStep == loop_pc = "control" /\ loop_pc' = "sleep"

AllTaken(cmds) == \A i \in 1 .. Len(cmds) : cmds[i].ok

\* C30: the mode the loop records is the mode the inverter is in.  A cycle
\* records auto_charging / external only when the inverter took both the
\* external control and the charge setpoint, it records automatic / internal
\* only when the inverter took both the setpoint 0 and the return to internal
\* control, and a cycle one of whose commands was refused leaves the record
\* as it was.
C30_RecordedModeMatchesInverter ==
    [][ CycleStep =>
          /\ (inverter' # inverter /\ inverter'.mode = "auto_charging") =>
                 /\ inverter'.control_mode = "external"
                 /\ device'.external_control
                 /\ device'.battery_power = charge_power
          /\ (inverter' # inverter /\ inverter'.mode = "automatic") =>
                 /\ inverter'.control_mode = "internal"
                 /\ ~device'.external_control
                 /\ device'.battery_power = 0
          /\ ~AllTaken(commands') => inverter' = inverter ]_vars

\* a cycle has just taken its decision from a reading it could use
Decided == loop_pc = "sleep" /\ cycle_locals.ran

StartsCharging(cmds) ==
    \E i \in 1 .. Len(cmds) :
        \/ cmds[i].name = "set_external_control" /\ cmds[i].value = 1
        \/ cmds[i].name = "write_battery_power" /\ cmds[i].value # 0

\* C28: the order of the decision.  With the SOC below min_soc the cycle
\* decides to charge and the recorded mode is a charging mode afterwards,
\* whatever the plan says.  With the SOC at or above max_soc it decides not to
\* charge, even with a window at hour 0 in the plan, and does not go into
\* charging.  With no plan stored and the SOC not below min_soc it decides
\* not to charge and does not go into charging.
C28_DecisionPriority ==
    [][ (CycleStep /\ cycle_locals'.ran) =>
          LET soc == cycle_locals'.current_soc
              goes_into_charging ==
                  \/ /\ ~current_mode_is_charging(inverter.mode)
                     /\ current_mode_is_charging(inverter'.mode)
                  \/ StartsCharging(commands')
          IN  /\ soc < min_soc =>
                    /\ cycle_locals'.should_charge
                    /\ current_mode_is_charging(inverter'.mode)
              /\ soc >= max_soc =>
                    /\ ~cycle_locals'.should_charge
                    /\ ~goes_into_charging
              /\ (daily_battery_schedule = NoPlan /\ soc >= min_soc) =>
                    /\ ~cycle_locals'.should_charge
                    /\ ~goes_into_charging ]_vars

\* C28 witness: a full battery, a plan with a window at hour 0, and the cycle
\* has just taken the inverter out of charging
C28_Witness ==
    /\ Decided
    /\ cycle_locals.current_soc >= max_soc
    /\ daily_battery_schedule # NoPlan
    /\ ChargeNowFromPlan(daily_battery_schedule)
    /\ ~cycle_locals.should_charge
    /\ commands # <<>>
    /\ inverter.mode = "automatic"

\* the hysteresis of the last switch of the loop is still running
WithinHysteresis ==
    /\ last_mode_switch_time # NoTime
    /\ loop_now - last_mode_switch_time < mode_switch_hysteresis_seconds

\* the step sends a command to the inverter or changes what the loop keeps
\* of the inverter's mode
Switches ==
    \/ commands' # <<>>
    \/ inverter' # inverter
    \/ last_mode_switch_time' # last_mode_switch_time

PlanStep == loop_pc \in {"start", "plan"} /\ loop_pc' # loop_pc

\* a whole plan, as one planner call made it
CompletePlan(schedule) ==
    /\ schedule # NoPlan
    /\ schedule.charging_windows \in PlannedWindows
    /\ schedule.start_time \in 0 .. loop_now

\* what a reader has got from a plan when it has read all of it
ViewOf(schedule) ==
    [charging_windows |-> schedule.charging_windows,
     start_time |-> schedule.start_time]

\* C21: the stored plan is replaced as a whole and never lost.  Once a plan
\* is stored the stored plan is never None again; a planner call that fails
\* or returns no plan leaves the stored plan as it was; the stored plan only
\* ever changes to the whole plan of the planner call just made.  A reader
\* takes what is stored at one moment and everything it reads is of that one
\* plan, also when the loop stores another plan while it reads.
C21_PlanReplacedWholesale ==
    /\ [](daily_battery_schedule # NoPlan => CompletePlan(daily_battery_schedule))
    /\ [][ /\ daily_battery_schedule # NoPlan => daily_battery_schedule' # NoPlan
           /\ (PlanStep /\ plan_outcome' # "plan") =>
                  UNCHANGED daily_battery_schedule
           /\ daily_battery_schedule' # daily_battery_schedule =>
                  /\ PlanStep
                  /\ plan_outcome' = "plan"
                  /\ daily_battery_schedule'.start_time = loop_now
           /\ reader_schedule' # reader_schedule =>
                  reader_schedule' \in {daily_battery_schedule, NoPlan} ]_vars
    /\ [](reader_schedule # NoPlan =>
            /\ CompletePlan(reader_schedule)
            /\ reader_pc \in {"start_time", "done"} =>
                   reader_view.charging_windows = reader_schedule.charging_windows
            /\ reader_pc = "done" => reader_view = ViewOf(reader_schedule))

\* C21 witness: a reader has read all of the plan it took, the loop has
\* stored another plan meanwhile, and the planner call after that failed
C21_Witness ==
    /\ reader_pc = "done"
    /\ reader_schedule # NoPlan
    /\ daily_battery_schedule # reader_schedule
    /\ daily_battery_schedule.charging_windows # reader_schedule.charging_windows
    /\ plan_outcome \in {"None", "raised"}

====
